---- MODULE Spec2Model ----
(***************************************************************************)
(* Model of the procedural mesh generators (esShapes.c: esGenSphere,       *)
(* esGenCube, esGenArrow) and of the rotating-arrow demo that drives them  *)
(* (Simple_VertexShader.c: Init, Update, Draw, ShutDown).                  *)
(*                                                                         *)
(* Numbers.  A GLfloat is modelled by the integer count of 2^-24 units it  *)
(* stands for (1.0f is 2^24).  All floats handled here lie in (-128, 128)  *)
(* and are whole numbers of units; RoundF32 rounds an exact result to the  *)
(* float32 grid of its binade, to nearest, ties to even, as IEEE-754       *)
(* single precision does.  Scales are integer-valued floats; deltaTime is  *)
(* a whole number of 2^-26 second.  The sphere's trigonometric values are  *)
(* kept as symbolic terms.                                                 *)
(*                                                                         *)
(* Pointers.  An output slot passed as NULL is absent from the request     *)
(* set; the caller's variable then keeps NoBuf.  malloc is taken to        *)
(* succeed (the code never checks it); a fresh block holds indeterminate   *)
(* bytes.                                                                  *)
(***************************************************************************)
EXTENDS Integers, Sequences, FiniteSets, TLC

\* ------------------------------------------------------------------------
\* Bounds of the model
\* ------------------------------------------------------------------------
MaxSlices == 6
MaxRadius == 2
MaxScale == 4

\* ------------------------------------------------------------------------
\* float32 arithmetic on 2^-24 units
\* ------------------------------------------------------------------------
One == 2 ^ 24

Abs(x) == IF x < 0 THEN -x ELSE x

\* Spacing of float32 values, in units, in the binade that holds magnitude a.
Ulp(a) ==
    IF a < One THEN 1
    ELSE IF a < 2 * One THEN 2
    ELSE IF a < 4 * One THEN 4
    ELSE IF a < 8 * One THEN 8
    ELSE IF a < 16 * One THEN 16
    ELSE IF a < 32 * One THEN 32
    ELSE IF a < 64 * One THEN 64
    ELSE 128

\* Round the exact value x to float32: nearest grid point, ties to the even one.
RoundF32(x) ==
    LET a == Abs(x)
        g == Ulp(a)
        q == a \div g
        r == a % g
        up == (2 * r > g) \/ (2 * r = g /\ q % 2 = 1)
        m == IF up THEN (q + 1) * g ELSE q * g
    IN IF x < 0 THEN -m ELSE m

\* a * n for a float a and an integer-valued float n.
FMul(a, n) == RoundF32(a * n)

\* ------------------------------------------------------------------------
\* Output slots
\* ------------------------------------------------------------------------
SphereSlots == {"vertices", "normals", "texCoords", "indices"}

NoBuf == <<"NULL">>
Garbage == <<"garbage">>

\* What a memory cell nobody has written yet holds: any value at all.  It is kept
\* as the term <<"stale", k>>, "whatever was at place k before".
Stale(k) == <<"stale", k>>

\* malloc ( n cells ): a block of n cells, each holding whatever was there.
Malloc(n) == [k \in 0 .. (n - 1) |-> Stale(k)]

\* ------------------------------------------------------------------------
\* esGenSphere
\* ------------------------------------------------------------------------
VARIABLES numSlices, radius, sReq, sPc, sI, sJ, indexBuf,
          sVertices, sNormals, sTexCoords, sIndices,
          idxWrites, idxOverrun, sNullDeref, sRet

sphereVars == <<numSlices, radius, sReq, sPc, sI, sJ, indexBuf,
                sVertices, sNormals, sTexCoords, sIndices,
                idxWrites, idxOverrun, sNullDeref, sRet>>

NumParallels(n) == n \div 2
NumVertices(n) == (NumParallels(n) + 1) * (n + 1)
NumIndices(n) == NumParallels(n) * n * 6

\* The three position components of grid point (i, j), kept symbolic:
\* <<"x", r, i, j>> is r * sinf(angleStep * i) * sinf(angleStep * j), and so on.
SpherePosition(r, i, j) == << <<"x", r, i, j>>, <<"y", r, i>>, <<"z", r, i, j>> >>

\* The two texture coordinates of grid point (i, j), as exact quotients <<num, den>>.
SphereTexCoord(n, i, j) == << <<j, n>>, <<1 - i, NumParallels(n) - 1>> >>

SphereCellIndicesSwapped(n, i, j) ==
    << i * (n + 1) + j, (i + 1) * (n + 1) + (j + 1), (i + 1) * (n + 1) + j,
       i * (n + 1) + j, (i + 1) * (n + 1) + (j + 1), i * (n + 1) + (j + 1) >>

\* The six values the index loop body stores for cell (i, j), in store order.
SphereCellIndices(n, i, j) ==
    << i * (n + 1) + j, (i + 1) * (n + 1) + j, (i + 1) * (n + 1) + (j + 1),
       i * (n + 1) + j, (i + 1) * (n + 1) + (j + 1), i * (n + 1) + (j + 1) >>

IndexRowsOneMore(n) == NumParallels(n) + 1

\* Number of rows the index loop visits ( i < numParallels ).
IndexRows(n) == NumParallels(n)

SphereIdle ==
    /\ numSlices = 0 /\ radius = 0 /\ sReq = {} /\ sPc = "idle"
    /\ sI = 0 /\ sJ = 0 /\ indexBuf = 0
    /\ sVertices = NoBuf /\ sNormals = NoBuf /\ sTexCoords = NoBuf /\ sIndices = NoBuf
    /\ idxWrites = <<>> /\ idxOverrun = {} /\ sNullDeref = {} /\ sRet = -1

\* A call esGenSphere ( numSlices, radius, ... ) about to run: each pointer argument
\* is either NULL or the address of a caller variable that holds nothing yet.
SphereInit ==
    /\ numSlices \in 4 .. MaxSlices
    /\ radius \in 1 .. MaxRadius
    /\ sReq \in SUBSET SphereSlots
    /\ sPc = "alloc"
    /\ sI = 0 /\ sJ = 0 /\ indexBuf = 0
    /\ sVertices = NoBuf /\ sNormals = NoBuf /\ sTexCoords = NoBuf /\ sIndices = NoBuf
    /\ idxWrites = <<>> /\ idxOverrun = {} /\ sNullDeref = {} /\ sRet = -1

\* Lines 64-74: allocate the requested buffers.
SphereAlloc ==
    /\ sPc = "alloc"
    /\ sVertices' = IF "vertices" \in sReq THEN Malloc(3 * NumVertices(numSlices)) ELSE NoBuf
    /\ sNormals' = IF "normals" \in sReq THEN Malloc(3 * NumVertices(numSlices)) ELSE NoBuf
    /\ sTexCoords' = IF "texCoords" \in sReq THEN Malloc(2 * NumVertices(numSlices)) ELSE NoBuf
    /\ sIndices' = IF "indices" \in sReq THEN Malloc(NumIndices(numSlices)) ELSE NoBuf
    /\ idxWrites' = IF "indices" \in sReq
                    THEN [k \in 0 .. (NumIndices(numSlices) - 1) |-> 0] ELSE <<>>
    /\ sPc' = "vloop"
    /\ UNCHANGED <<numSlices, radius, sReq, sI, sJ, indexBuf, idxOverrun, sNullDeref, sRet>>

\* Store the sequence vals at offsets base, base+1, ... of buffer buf.
StoreAt(buf, base, vals) ==
    [k \in DOMAIN buf |->
        IF k >= base /\ k < base + Len(vals) THEN vals[k - base + 1] ELSE buf[k]]

\* Where the vertex loop goes after iteration (i, j).
AfterVertex ==
    IF sJ + 1 < numSlices + 1
    THEN [pc |-> "vloop", i |-> sI, j |-> sJ + 1]
    ELSE IF sI + 1 < NumParallels(numSlices) + 1
         THEN [pc |-> "vloop", i |-> sI + 1, j |-> 0]
         ELSE [pc |-> IF "indices" \in sReq THEN "iloop" ELSE "ret", i |-> 0, j |-> 0]

\* Lines 76-105: one iteration of the vertex loop body.
SphereVertexStep ==
    /\ sPc = "vloop"
    /\ LET vertex == (sI * (numSlices + 1) + sJ) * 3
           texIndex == (sI * (numSlices + 1) + sJ) * 2
           verts1 == IF "vertices" \in sReq
                     THEN StoreAt(sVertices, vertex, SpherePosition(radius, sI, sJ))
                     ELSE sVertices
           \* line 93-95 reads (*vertices)[vertex + k] whether or not vertices is NULL
           readBack == IF "vertices" \in sReq
                       THEN <<verts1[vertex], verts1[vertex + 1], verts1[vertex + 2]>>
                       ELSE <<Garbage, Garbage, Garbage>>
           normalVals == << <<"div", readBack[1], radius>>,
                            <<"div", readBack[2], radius>>,
                            <<"div", readBack[3], radius>> >>
           nullRead == "normals" \in sReq /\ "vertices" \notin sReq
           nxt == AfterVertex
           tex1 == IF "texCoords" \in sReq
                   THEN StoreAt(sTexCoords, texIndex, SphereTexCoord(numSlices, sI, sJ))
                   ELSE sTexCoords
       IN /\ sVertices' = verts1
          /\ IF nullRead
             THEN \* line 93 dereferences a null pointer: the call faults there,
                  \* before the texCoords stores of lines 98-103, or goes on with
                  \* whatever the read produced
                  /\ sNullDeref' = sNullDeref \cup {"vertices"}
                  /\ \/ /\ sPc' = "crashed"
                        /\ UNCHANGED <<sNormals, sTexCoords, sI, sJ>>
                     \/ /\ sNormals' = StoreAt(sNormals, vertex, normalVals)
                        /\ sTexCoords' = tex1
                        /\ sPc' = nxt.pc /\ sI' = nxt.i /\ sJ' = nxt.j
             ELSE /\ sNormals' = IF "normals" \in sReq
                                 THEN StoreAt(sNormals, vertex, normalVals)
                                 ELSE sNormals
                  /\ sTexCoords' = tex1
                  /\ sPc' = nxt.pc /\ sI' = nxt.i /\ sJ' = nxt.j
                  /\ UNCHANGED sNullDeref
    /\ UNCHANGED <<numSlices, radius, sReq, indexBuf, sIndices, idxWrites, idxOverrun, sRet>>

\* Lines 108-124: one iteration of the index loop body, six stores through indexBuf++.
SphereIndexStep ==
    /\ sPc = "iloop"
    /\ LET vals == SphereCellIndices(numSlices, sI, sJ)
           offs == indexBuf .. (indexBuf + 5)
       IN /\ sIndices' = StoreAt(sIndices, indexBuf, vals)
          /\ idxWrites' = [k \in DOMAIN idxWrites |->
                              IF k \in offs THEN idxWrites[k] + 1 ELSE idxWrites[k]]
          /\ idxOverrun' = idxOverrun \cup (offs \ DOMAIN sIndices)
          /\ indexBuf' = indexBuf + 6
    /\ IF sJ + 1 < numSlices
       THEN sPc' = "iloop" /\ sI' = sI /\ sJ' = sJ + 1
       ELSE IF sI + 1 < IndexRows(numSlices)
            THEN sPc' = "iloop" /\ sI' = sI + 1 /\ sJ' = 0
            ELSE sPc' = "ret" /\ sI' = sI + 1 /\ sJ' = 0
    /\ UNCHANGED <<numSlices, radius, sReq, sVertices, sNormals, sTexCoords, sNullDeref, sRet>>

\* Line 126: return numIndices.
SphereReturn ==
    /\ sPc = "ret"
    /\ sRet' = NumIndices(numSlices)
    /\ sPc' = "done"
    /\ UNCHANGED <<numSlices, radius, sReq, sI, sJ, indexBuf, sVertices, sNormals,
                   sTexCoords, sIndices, idxWrites, idxOverrun, sNullDeref>>


\* ------------------------------------------------------------------------
\* esGenCube
\* ------------------------------------------------------------------------
VARIABLES cube, cubePrev

cubeVars == <<cube, cubePrev>>

CubeSlots == {"vertices", "normals", "texCoords", "indices"}

\* memcpy ( dst, src, sizeof(src) ): the cells of table src (1-based) land at
\* offsets 0 .. Len(src)-1 of block dst; the other cells of dst keep their content.
Memcpy(dst, src) ==
    [k \in DOMAIN dst |-> IF k < Len(src) THEN src[k + 1] ELSE dst[k]]

cubeVerts ==
    LET p == One \div 2
        n == -(One \div 2)
    IN << n, n, n,
       n, n, p,
       p, n, p,
       p, n, n,
       n, p, n,
       n, p, p,
       p, p, p,
       p, p, n,
       n, n, n,
       n, p, n,
       p, p, n,
       p, n, n,
       n, n, p,
       n, p, p,
       p, p, p,
       p, n, p,
       n, n, n,
       n, n, p,
       n, p, p,
       n, p, n,
       p, n, n,
       p, n, p,
       p, p, p,
       p, p, n >>

cubeNormals ==
    LET z == 0
        o == One
        m == -One
    IN << z, m, z,
       z, m, z,
       z, m, z,
       z, m, z,
       z, o, z,
       z, o, z,
       z, o, z,
       z, o, z,
       z, z, m,
       z, z, m,
       z, z, m,
       z, z, m,
       z, z, o,
       z, z, o,
       z, z, o,
       z, z, o,
       m, z, z,
       m, z, z,
       m, z, z,
       m, z, z,
       o, z, z,
       o, z, z,
       o, z, z,
       o, z, z >>

cubeTex ==
    LET z == 0
        o == One
    IN << z, z,
       z, o,
       o, o,
       o, z,
       o, z,
       o, o,
       z, o,
       z, z,
       z, z,
       z, o,
       o, o,
       o, z,
       z, z,
       z, o,
       o, o,
       o, z,
       z, z,
       z, o,
       o, o,
       o, z,
       z, z,
       z, o,
       o, o,
       o, z >>

cubeIndicesCrossFace ==
    << 0, 2, 1,
       0, 4, 2,
       4, 5, 6,
       4, 6, 7,
       8, 9, 10,
       8, 10, 11,
       12, 15, 14,
       12, 14, 13,
       16, 17, 18,
       16, 18, 19,
       20, 23, 22,
       20, 22, 21 >>

cubeIndices ==
    << 0, 2, 1,
       0, 3, 2,
       4, 5, 6,
       4, 6, 7,
       8, 9, 10,
       8, 10, 11,
       12, 15, 14,
       12, 14, 13,
       16, 17, 18,
       16, 18, 19,
       20, 23, 22,
       20, 22, 21 >>

ScaleCellsBiased(buf, scale, copied) ==
    [k \in DOMAIN buf |->
        IF k < copied THEN FMul(buf[k], scale) + One ELSE <<"mul", buf[k], scale>>]

\* for ( i = 0; i < numVertices * 3; i++ ) (*vertices)[i] *= scale, over the whole
\* block.  The first `copied` cells are the floats memcpy put there; a cell past
\* them still holds whatever malloc returned, and its product is kept as a term.
ScaleCells(buf, scale, copied) ==
    [k \in DOMAIN buf |->
        IF k < copied THEN FMul(buf[k], scale) ELSE <<"mul", buf[k], scale>>]

\* esGenCube ( scale, vertices, normals, texCoords, indices ): what the caller's
\* four variables hold afterwards, and the value returned.
GenCube(scale, req) ==
    [scale |-> scale, req |-> req,
     vertices |-> IF "vertices" \in req
                  THEN ScaleCells(Memcpy(Malloc(3 * 24), cubeVerts), scale, Len(cubeVerts))
                  ELSE NoBuf,
     normals |-> IF "normals" \in req THEN Memcpy(Malloc(3 * 24), cubeNormals) ELSE NoBuf,
     texCoords |-> IF "texCoords" \in req THEN Memcpy(Malloc(2 * 24), cubeTex) ELSE NoBuf,
     indices |-> IF "indices" \in req THEN Memcpy(Malloc(36), cubeIndices) ELSE NoBuf,
     ret |-> 36]

NoCall == [ret |-> -1]

CubeIdle == cube = NoCall /\ cubePrev = NoCall

\* The caller runs the generator, at most twice, and keeps the buffers of both calls.
CubeCall ==
    \E scale \in 1 .. MaxScale, req \in SUBSET CubeSlots :
        /\ cubePrev = NoCall
        /\ cube' = GenCube(scale, req)
        /\ cubePrev' = cube

\* ------------------------------------------------------------------------
\* esGenArrow
\* ------------------------------------------------------------------------
VARIABLES arrow

arrowVars == <<arrow>>

ArrowSlots == {"vertices", "colors", "normals", "texCoords", "indices"}

\* 0.3f, the float32 nearest to 0.3: 5033165 * 2^-24.
ThreeTenths == 5033165

ARROW_V1 == <<0, One, 0>>
ARROW_V2 == <<-ThreeTenths, -ThreeTenths, 0>>
ARROW_V3 == <<ThreeTenths, -ThreeTenths, 0>>
ARROW_V4 == <<0, 0, ThreeTenths>>

ARROW_C1 == <<One, 0, 0, 0>>
ARROW_C2 == <<0, One, 0, 0>>
ARROW_C3 == <<0, 0, One, 0>>

\* Lines 304-321: the initializer lists six points.
arrowVerts ==
    ARROW_V1 \o ARROW_V4 \o ARROW_V2 \o
    ARROW_V1 \o ARROW_V4 \o ARROW_V3

arrowColorsMixedGroup ==
    ARROW_C1 \o ARROW_C1 \o ARROW_C1 \o
    ARROW_C2 \o ARROW_C2 \o ARROW_C3 \o
    ARROW_C3 \o ARROW_C3 \o ARROW_C3 \o
    ARROW_C1 \o ARROW_C1 \o ARROW_C1

arrowColors ==
    ARROW_C1 \o ARROW_C1 \o ARROW_C1 \o
    ARROW_C2 \o ARROW_C2 \o ARROW_C2 \o
    ARROW_C3 \o ARROW_C3 \o ARROW_C3 \o
    ARROW_C1 \o ARROW_C1 \o ARROW_C1

arrowIndices == <<0, 1, 2, 3, 4, 5, 6, 7, 8, 9, 10, 11>>

\* esGenArrow ( scale, vertices, colors, normals, texCoords, indices ): what the
\* caller's variables hold afterwards, and the value returned.  normals and
\* texCoords are never looked at.  vertsCopied is the set of cells of *vertices
\* that memcpy filled from arrowVerts; the scaling loop runs over all 3 * 12 cells,
\* so the others hold scale times whatever the fresh block held.
GenArrow(scale, req) ==
    [scale |-> scale, req |-> req,
     vertices |-> IF "vertices" \in req
                  THEN ScaleCells(Memcpy(Malloc(3 * 12), arrowVerts), scale, Len(arrowVerts))
                  ELSE NoBuf,
     vertsCopied |-> IF "vertices" \in req THEN 0 .. (Len(arrowVerts) - 1) ELSE {},
     colors |-> IF "colors" \in req THEN Memcpy(Malloc(4 * 12), arrowColors) ELSE NoBuf,
     normals |-> NoBuf,
     texCoords |-> NoBuf,
     indices |-> IF "indices" \in req THEN Memcpy(Malloc(12), arrowIndices) ELSE NoBuf,
     ret |-> 12]

ArrowIdle == arrow = NoCall

ArrowCall ==
    \E scale \in 1 .. MaxScale, req \in SUBSET ArrowSlots :
        /\ arrow = NoCall
        /\ arrow' = GenArrow(scale, req)

\* ------------------------------------------------------------------------
\* Simple_VertexShader.c: the demo driver
\* ------------------------------------------------------------------------
\* updates is history: the parity of the number of Update calls made so far.
VARIABLES pc, userData, heap, deltas, presented, updates

demoVars == <<pc, userData, heap, deltas, presented, updates>>

NULL == 0

ANGLE_MAX == 75 * One
ANGLE_MIN == -(75 * One)

\* The frame times, in 2^-26 second, that esMainLoop may hand to Update in one run
\* of the program: 2^-26 s alone, or 1/4 s and 1/2 s, with or without 0 s.
DeltaSets == { {1}, {0, 2 ^ 24, 2 ^ 25}, {2 ^ 24, 2 ^ 25} }

UpdateAngleNoClamp(angle, increase, dt) ==
    IF increase # 0
    THEN LET a == RoundF32(angle + RoundF32(dt * (100 \div 4)))
         IN IF a >= ANGLE_MAX THEN [angle |-> a, increase |-> 0]
                              ELSE [angle |-> a, increase |-> increase]
    ELSE LET a == RoundF32(angle - dt * (60 \div 4))
         IN IF a <= ANGLE_MIN THEN [angle |-> a, increase |-> 1]
                              ELSE [angle |-> a, increase |-> increase]

UpdateAngleNoTurn(angle, increase, dt) ==
    IF increase # 0
    THEN LET a == RoundF32(angle + RoundF32(dt * (100 \div 4)))
         IN IF a >= ANGLE_MAX THEN [angle |-> ANGLE_MAX, increase |-> 0]
                              ELSE [angle |-> a, increase |-> increase]
    ELSE LET a == RoundF32(angle - dt * (60 \div 4))
         IN IF a <= ANGLE_MIN THEN [angle |-> ANGLE_MIN, increase |-> 0]
                              ELSE [angle |-> a, increase |-> increase]

\* Lines 105-118.  dt is deltaTime in 2^-26 second, so deltaTime * 100.0f is
\* dt * 25 units of 2^-24 degree, rounded to float, and deltaTime * 60.0 is dt * 15
\* units, exact in double; each sum is rounded once when stored into the float angle.
UpdateAngle(angle, increase, dt) ==
    IF increase # 0
    THEN LET a == RoundF32(angle + RoundF32(dt * (100 \div 4)))
         IN IF a >= ANGLE_MAX THEN [angle |-> ANGLE_MAX, increase |-> 0]
                              ELSE [angle |-> a, increase |-> increase]
    ELSE LET a == RoundF32(angle - dt * (60 \div 4))
         IN IF a <= ANGLE_MIN THEN [angle |-> ANGLE_MIN, increase |-> 1]
                              ELSE [angle |-> a, increase |-> increase]

\* free ( p ).
Free(h, p) == [h EXCEPT ![p].frees = @ + 1]

DemoIdle ==
    /\ pc = "idle" /\ userData = <<>> /\ heap = <<>> /\ deltas = {} /\ presented = <<>>
    /\ updates = 0

\* main, lines 204-210: userData is an automatic variable nobody has written yet;
\* nothing has been drawn.
Start ==
    /\ pc = "start"
    /\ userData = [vertices |-> Stale(0), colors |-> Stale(1), indices |-> Stale(2),
                   numIndices |-> Stale(3), angle |-> Stale(4), increase |-> Stale(5),
                   mvpMatrix |-> Stale(6)]
    /\ heap = <<>>
    /\ deltas \in DeltaSets
    /\ presented = <<>>
    /\ updates = 0

\* Init, lines 48-90: esGenArrow ( 1.0, &vertices, &colors, NULL, NULL, &indices )
\* mallocs the three blocks in this order; then the rotation state is set.
Init ==
    /\ pc = "start"
    /\ LET g == GenArrow(1, {"vertices", "colors", "indices"})
       IN /\ heap' = << [data |-> g.vertices, frees |-> 0],
                        [data |-> g.colors, frees |-> 0],
                        [data |-> g.indices, frees |-> 0] >>
          /\ userData' = [userData EXCEPT !.vertices = 1, !.colors = 2, !.indices = 3,
                                          !.numIndices = g.ret,
                                          !.angle = -(45 * One), !.increase = 1]
    /\ pc' = "loop"
    /\ UNCHANGED <<deltas, presented, updates>>

\* Update, lines 97-141: the angle moves, and mvpMatrix is rebuilt from it.
Update(dt) ==
    /\ pc = "loop"
    /\ LET u == UpdateAngle(userData.angle, userData.increase, dt)
       IN userData' = [userData EXCEPT !.angle = u.angle, !.increase = u.increase,
                                       !.mvpMatrix = <<"mvp", u.angle>>]
    /\ updates' = 1 - updates
    /\ UNCHANGED <<pc, heap, deltas, presented>>

UpdateStep == \E dt \in deltas : Update(dt)

\* Draw, lines 146-178: the frame shown is drawn from mvpMatrix, numIndices and the
\* three arrays.
Draw ==
    /\ pc = "loop"
    /\ presented' = <<userData.mvpMatrix, userData.numIndices,
                      <<userData.vertices, userData.colors, userData.indices>> >>
    /\ UNCHANGED <<pc, userData, heap, deltas, updates>>

\* ShutDown, lines 183-199, once esMainLoop has returned.
ShutDown ==
    /\ pc = "loop"
    /\ LET h1 == IF userData.vertices # NULL THEN Free(heap, userData.vertices) ELSE heap
           h2 == IF userData.indices # NULL THEN Free(h1, userData.indices) ELSE h1
       IN heap' = h2
    /\ pc' = "done"
    /\ UNCHANGED <<userData, deltas, presented, updates>>

vars == <<sphereVars, cubeVars, arrowVars, demoVars>>

\* ------------------------------------------------------------------------
\* Properties of esGenSphere
\* ------------------------------------------------------------------------
SphereDoneWithIndices == sPc = "done" /\ "indices" \in sReq

\* C1: for every slices >= 4, even or odd, a call that requests indices returns
\* (slices/2) * slices * 6, stores into exactly the entries 0 .. indexCount-1 of the
\* index array and into no other place, and every stored value is below
\* vertexCount = (slices/2 + 1) * (slices + 1).
SphereIndexCountAndRange ==
    /\ idxOverrun = {}
    /\ SphereDoneWithIndices =>
          /\ sRet = (numSlices \div 2) * numSlices * 6
          /\ DOMAIN sIndices = 0 .. (sRet - 1)
          /\ indexBuf = sRet
          /\ \A k \in DOMAIN sIndices :
                /\ idxWrites[k] >= 1
                /\ sIndices[k] \in Nat
                /\ sIndices[k] < ((numSlices \div 2) + 1) * (numSlices + 1)

SphereOddSlicesDone == SphereDoneWithIndices /\ numSlices = 5 /\ sRet = 60

\* C2: no generator dereferences an output slot that was passed as NULL, and a slot
\* passed as NULL is left without a buffer; in particular when normals are requested
\* and positions are not.
SphereNullSlotsUntouched ==
    /\ sNullDeref = {}
    /\ sPc # "crashed"
    /\ ("vertices" \notin sReq => sVertices = NoBuf)
    /\ ("normals" \notin sReq => sNormals = NoBuf)
    /\ ("texCoords" \notin sReq => sTexCoords = NoBuf)
    /\ ("indices" \notin sReq => sIndices = NoBuf)

\* C8: for every grid cell (i, j) the six entries at 6*(i*slices + j) .. +5 are
\* v(i,j), v(i+1,j), v(i+1,j+1), v(i,j), v(i+1,j+1), v(i,j+1) with
\* v(a,b) = a*(slices+1) + b, and no index entry is stored twice.
SphereCellLayoutWriteOnce ==
    /\ \A k \in DOMAIN idxWrites : idxWrites[k] <= 1
    /\ SphereDoneWithIndices =>
          \A i \in 0 .. ((numSlices \div 2) - 1) : \A j \in 0 .. (numSlices - 1) :
             LET base == 6 * (i * numSlices + j)
                 v(a, b) == a * (numSlices + 1) + b
             IN /\ sIndices[base] = v(i, j)
                /\ sIndices[base + 1] = v(i + 1, j)
                /\ sIndices[base + 2] = v(i + 1, j + 1)
                /\ sIndices[base + 3] = v(i, j)
                /\ sIndices[base + 4] = v(i + 1, j + 1)
                /\ sIndices[base + 5] = v(i, j + 1)
                /\ \A d \in 0 .. 5 : idxWrites[base + d] = 1

SphereLastCellStored ==
    /\ SphereDoneWithIndices /\ numSlices = 6
    /\ sIndices[107] = 2 * 7 + 6 /\ idxWrites[107] = 1

\* ------------------------------------------------------------------------
\* Properties of esGenArrow
\* ------------------------------------------------------------------------
ArrowCalled == arrow # NoCall

\* The three position cells of vertex k of the last esGenArrow call.
ArrowVertex(k) == <<arrow.vertices[3 * k], arrow.vertices[3 * k + 1], arrow.vertices[3 * k + 2]>>

\* scale times a logical point.
ScaledPoint(pt, scale) == <<FMul(pt[1], scale), FMul(pt[2], scale), FMul(pt[3], scale)>>

\* C3: with positions and indices requested, every vertex k named by the 12-entry
\* index list has its three position cells filled by the generator, and they equal
\* scale times one of the four logical points V1, V2, V3, V4.
ArrowIndexedPositionsFilled ==
    (ArrowCalled /\ {"vertices", "indices"} \subseteq arrow.req) =>
        \A n \in 0 .. 11 :
            LET k == arrow.indices[n]
            IN /\ {3 * k, 3 * k + 1, 3 * k + 2} \subseteq arrow.vertsCopied
               /\ ArrowVertex(k) \in { ScaledPoint(pt, arrow.scale) :
                                          pt \in {ARROW_V1, ARROW_V2, ARROW_V3, ARROW_V4} }

\* The four colour cells of vertex k of the last esGenArrow call.
ArrowColor(k) ==
    <<arrow.colors[4 * k], arrow.colors[4 * k + 1], arrow.colors[4 * k + 2], arrow.colors[4 * k + 3]>>

\* C4: esGenArrow returns 12 whatever the scale and the requested slots; with
\* indices and colors requested the index list is 0 .. 11 in order and the three
\* vertices of group g carry one colour: C1 for groups 0 and 3, C2 for group 1,
\* C3 for group 2, whatever the scale.
ArrowTwelveFlatGroups ==
    ArrowCalled =>
        /\ arrow.ret = 12
        /\ {"indices", "colors"} \subseteq arrow.req =>
              /\ DOMAIN arrow.indices = 0 .. 11
              /\ \A n \in 0 .. 11 : arrow.indices[n] = n
              /\ DOMAIN arrow.colors = 0 .. 47
              /\ \A g \in 0 .. 3 : \A c \in 0 .. 2 :
                    ArrowColor(arrow.indices[3 * g + c]) =
                        CASE g = 0 -> <<One, 0, 0, 0>>
                          [] g = 1 -> <<0, One, 0, 0>>
                          [] g = 2 -> <<0, 0, One, 0>>
                          [] g = 3 -> <<One, 0, 0, 0>>

ArrowScaledColorsDone ==
    /\ ArrowCalled /\ arrow.scale = 3 /\ arrow.req = {"colors", "indices"}
    /\ ArrowColor(5) = <<0, One, 0, 0>>

\* ------------------------------------------------------------------------
\* Properties of esGenCube
\* ------------------------------------------------------------------------
CubeCalled == cube # NoCall

\* C5: esGenCube returns 36 for every scale and request; with indices requested
\* the 36 values are below 24 and the six entries of face f name only the
\* vertices 4f .. 4f+3, as two triangles; for scale 2.0 the first vertex is
\* (-1, -1, -1) and the first triangle is (0, 2, 1).
CubeFacesOwnVertices ==
    CubeCalled =>
        /\ cube.ret = 36
        /\ "indices" \in cube.req =>
              /\ DOMAIN cube.indices = 0 .. 35
              /\ \A n \in 0 .. 35 : cube.indices[n] \in 0 .. 23
              /\ \A f \in 0 .. 5 : \A d \in 0 .. 5 :
                    cube.indices[6 * f + d] \in (4 * f) .. (4 * f + 3)
              /\ \A t \in 0 .. 11 :
                    Cardinality({cube.indices[3 * t + c] : c \in 0 .. 2}) = 3
              /\ <<cube.indices[0], cube.indices[1], cube.indices[2]>> = <<0, 2, 1>>
        /\ ("vertices" \in cube.req /\ cube.scale = 2) =>
              <<cube.vertices[0], cube.vertices[1], cube.vertices[2]>> = <<-One, -One, -One>>

CubeScaleTwoDone ==
    /\ CubeCalled /\ cube.scale = 2 /\ cube.req = {"vertices", "indices"}
    /\ cube.vertices[0] = -One /\ cube.indices[35] = 21

\* C6: for two esGenCube calls with all four outputs requested and scales s and
\* k*s, each of the 72 position components of the second is k times that of the
\* first, and the normals, texcoords and indices of the two calls are the same.
CubeOnlyPositionsScale ==
    (CubeCalled /\ cubePrev # NoCall /\ cube.req = CubeSlots /\ cubePrev.req = CubeSlots) =>
        \A k \in 1 .. MaxScale :
            cube.scale = k * cubePrev.scale =>
                /\ DOMAIN cube.vertices = 0 .. 71
                /\ \A c \in 0 .. 71 : cube.vertices[c] = RoundF32(k * cubePrev.vertices[c])
                /\ cube.normals = cubePrev.normals /\ DOMAIN cube.normals = 0 .. 71
                /\ cube.texCoords = cubePrev.texCoords /\ DOMAIN cube.texCoords = 0 .. 47
                /\ cube.indices = cubePrev.indices /\ DOMAIN cube.indices = 0 .. 35

CubeTripledDone ==
    /\ CubeCalled /\ cubePrev # NoCall /\ cube.req = CubeSlots /\ cubePrev.req = CubeSlots
    /\ cubePrev.scale = 1 /\ cube.scale = 3
    /\ cube.vertices[71] = -(3 * (One \div 2))

\* ------------------------------------------------------------------------
\* Properties of the demo driver
\* ------------------------------------------------------------------------
\* C7: when ShutDown has completed, every array esGenArrow allocated in Init has
\* been released exactly once.
ArraysReleasedOnce ==
    pc = "done" => \A b \in DOMAIN heap : heap[b].frees = 1

Running == pc = "loop"

\* C9: after Init, under Update calls with deltaTime >= 0, the angle stays within
\* [ANGLE_MIN, ANGLE_MAX]; increase turns from 1 to 0 only in an Update that leaves
\* the angle at ANGLE_MAX and from 0 to 1 only in one that leaves it at ANGLE_MIN;
\* an Update entered with increase = 1 never lowers the angle and one entered with
\* increase = 0 never raises it.
AngleBoundedAndMonotone ==
    /\ [](Running => (ANGLE_MIN <= userData.angle /\ userData.angle <= ANGLE_MAX))
    /\ [][(Running /\ Running') =>
            /\ (userData.increase = 1 /\ userData'.increase = 0) => userData'.angle = ANGLE_MAX
            /\ (userData.increase = 0 /\ userData'.increase = 1) => userData'.angle = ANGLE_MIN
            /\ userData.increase = 1 => userData'.angle >= userData.angle
            /\ userData.increase = 0 => userData'.angle <= userData.angle
            /\ userData'.increase \in {0, 1}]_vars

TurnedAtMax == Running /\ userData.angle = ANGLE_MAX /\ userData.increase = 0
TurnedAtMin == Running /\ userData.angle = ANGLE_MIN /\ userData.increase = 1

\* C10 as stated: if Update is called for ever with deltaTime bounded below by a
\* positive step, both turning points are visited again and again.
OscillatesForAnyPositiveStep ==
    (\A dt \in deltas : dt > 0) => ([]<>TurnedAtMax /\ []<>TurnedAtMin)

\* More than half the spacing of float32 in [64, 128), i.e. more than 2^-18 degree:
\* the least change that no angle in [-75, 75] absorbs.
Effective(step) == step > Ulp(ANGLE_MAX) \div 2

\* C10 amended: if Update is called for ever with deltaTime bounded below by a
\* step whose increments deltaTime * 100 and deltaTime * 60 both exceed 2^-18 degree,
\* both turning points are visited again and again.
OscillatesForEffectiveStep ==
    (\A dt \in deltas : Effective(RoundF32(dt * (100 \div 4))) /\ Effective(dt * (60 \div 4)))
        => ([]<>TurnedAtMax /\ []<>TurnedAtMin)

TurnedBackAtMin ==
    /\ TurnedAtMin /\ 0 \notin deltas
    /\ presented # <<>> /\ presented[1] = <<"mvp", ANGLE_MAX>>

LeftMaxGoingDown ==
    /\ Running /\ userData.increase = 0
    /\ userData.angle < ANGLE_MAX /\ userData.angle > 0

InitSphere == SphereInit /\ CubeIdle /\ ArrowIdle /\ DemoIdle

NextSphere ==
    \/ SphereAlloc /\ UNCHANGED <<cubeVars, arrowVars, demoVars>>
    \/ SphereVertexStep /\ UNCHANGED <<cubeVars, arrowVars, demoVars>>
    \/ SphereIndexStep /\ UNCHANGED <<cubeVars, arrowVars, demoVars>>
    \/ SphereReturn /\ UNCHANGED <<cubeVars, arrowVars, demoVars>>

SpecSphere == InitSphere /\ [][NextSphere]_vars

InitCube == SphereIdle /\ CubeIdle /\ ArrowIdle /\ DemoIdle

NextCube == CubeCall /\ UNCHANGED <<sphereVars, arrowVars, demoVars>>

SpecCube == InitCube /\ [][NextCube]_vars

InitArrow == SphereIdle /\ CubeIdle /\ ArrowIdle /\ DemoIdle

NextArrow == ArrowCall /\ UNCHANGED <<sphereVars, cubeVars, demoVars>>

SpecArrow == InitArrow /\ [][NextArrow]_vars

\* The demo from main to exit: Init, then Update and Draw in any order, then ShutDown.
InitDemo == SphereIdle /\ CubeIdle /\ ArrowIdle /\ Start

Next ==
    \/ Init /\ UNCHANGED <<sphereVars, cubeVars, arrowVars>>
    \/ UpdateStep /\ UNCHANGED <<sphereVars, cubeVars, arrowVars>>
    \/ Draw /\ UNCHANGED <<sphereVars, cubeVars, arrowVars>>
    \/ ShutDown /\ UNCHANGED <<sphereVars, cubeVars, arrowVars>>

Spec == InitDemo /\ [][Next]_vars

\* The demo while its window stays open: esMainLoop keeps calling Update and Draw.
NextLoop ==
    \/ Init /\ UNCHANGED <<sphereVars, cubeVars, arrowVars>>
    \/ UpdateStep /\ UNCHANGED <<sphereVars, cubeVars, arrowVars>>
    \/ Draw /\ UNCHANGED <<sphereVars, cubeVars, arrowVars>>

SpecLoop ==
    /\ InitDemo /\ [][NextLoop]_vars
    /\ WF_vars(Init /\ UNCHANGED <<sphereVars, cubeVars, arrowVars>>)
    /\ WF_vars(UpdateStep /\ UNCHANGED <<sphereVars, cubeVars, arrowVars>>)

====
